---- MODULE Spec2Model ----
(***************************************************************************)
(* Model of the PCA9554 I/O-expander driver (src/src/lib.rs).              *)
(*                                                                         *)
(* The driver is a stateless binding of a bus address to eight register    *)
(* operations.  Every operation hands exactly one transaction to an I2C    *)
(* transport that the caller supplies per call.  The transport is the      *)
(* environment: for every transaction it either succeeds (a write_read     *)
(* then fills the one-byte buffer with some byte) or fails with an error   *)
(* value of its own.  The model records the transactions the transport     *)
(* sees (bus) and what each call returned to its caller (ret).             *)
(***************************************************************************)
EXTENDS Integers, Sequences, FiniteSets, TLC

(***************************************************************************)
(* Bounds of the model.                                                    *)
(***************************************************************************)
\* Calls made in one behaviour of Spec.
MaxCalls == 2

\* Bytes the transport answers a read with in Spec.
SampleBytes == {0, 170}

\* Port bytes the caller writes in Spec (clear_outputs adds the byte 0).
SampleArgs == {170}

\* Error values of the transport (its error type E is opaque to the driver).
Errors == {"NACK", "ARBITRATION_LOSS"}

\* Error values the transport fails with in Spec.
SampleErrors == {"NACK"}

\* Addresses the second instance is strapped to in Spec.
SampleStraps == {"ADDR_0x20", "ADDR_0x27"}

\* Driver instances sharing the transport.
Instances == {1, 2}

\* The u8 values.
Byte == 0..255

(***************************************************************************)
(* u8 helpers.                                                             *)
(***************************************************************************)
RECURSIVE BitAnd(_, _)
\* Bitwise AND of two naturals (the & of u8).
BitAnd(x, y) ==
    IF x = 0 \/ y = 0 THEN 0
    ELSE (x % 2) * (y % 2) + 2 * BitAnd(x \div 2, y \div 2)

RECURSIVE BitOr(_, _)
\* Bitwise OR of two naturals (the | of u8).
BitOr(x, y) ==
    IF x = 0 THEN y
    ELSE IF y = 0 THEN x
    ELSE (IF x % 2 = 1 \/ y % 2 = 1 THEN 1 ELSE 0) + 2 * BitOr(x \div 2, y \div 2)

\* u8::from_le_bytes of a one-byte array.
u8_from_le_bytes(buffer) == buffer[1]

\* u8::to_le_bytes: the one-byte array holding the value.
u8_to_le_bytes(x) == << x % 256 >>

(***************************************************************************)
(* Result<T, E>.                                                           *)
(***************************************************************************)
Ok(v) == [ok |-> TRUE, val |-> v]

Err(e) == [ok |-> FALSE, err |-> e]

\* The () of Ok(()).
Unit == "()"

(***************************************************************************)
(* Port: the bitflags struct over u8, one flag per pin.                    *)
(***************************************************************************)
P00 == [bits |-> 1]

P01 == [bits |-> 2]

P02 == [bits |-> 4]

P03 == [bits |-> 8]

P04 == [bits |-> 16]

P05 == [bits |-> 32]

P06 == [bits |-> 64]

P07 == [bits |-> 128]

\* The named single-pin flags, by pin index.
PinFlag == [i \in 0..7 |->
              CASE i = 0 -> P00 [] i = 1 -> P01 [] i = 2 -> P02 [] i = 3 -> P03
                [] i = 4 -> P04 [] i = 5 -> P05 [] i = 6 -> P06 [] i = 7 -> P07]

\* Every value of the struct.
Port == [bits : Byte]

\* Port::empty()
Port_empty == [bits |-> 0]

\* Port::from_bits_unchecked: the byte is stored as it is, no flag is checked.
from_bits_unchecked(b) == [bits |-> b]

\* Port::contains
contains(p, q) == BitAnd(p.bits, q.bits) = q.bits

\* The | of two Ports.
union(p, q) == [bits |-> BitOr(p.bits, q.bits)]

(***************************************************************************)
(* Address and Register enumerations.                                      *)
(***************************************************************************)
Address == {"ADDR_0x20", "ADDR_0x21", "ADDR_0x22", "ADDR_0x23",
            "ADDR_0x24", "ADDR_0x25", "ADDR_0x26", "ADDR_0x27"}

\* `address as u8`: the discriminant of the #[repr(u8)] enum.
AddressAsU8(a) ==
    CASE a = "ADDR_0x20" -> 32
      [] a = "ADDR_0x21" -> 33
      [] a = "ADDR_0x22" -> 34
      [] a = "ADDR_0x23" -> 35
      [] a = "ADDR_0x24" -> 36
      [] a = "ADDR_0x25" -> 37
      [] a = "ADDR_0x26" -> 38
      [] a = "ADDR_0x27" -> 39

\* try_from with the arm of 0x26 yielding the variant of the arm above it.
try_from_pasted(value) ==
    CASE value = 32 -> Ok("ADDR_0x20")
      [] value = 33 -> Ok("ADDR_0x21")
      [] value = 34 -> Ok("ADDR_0x22")
      [] value = 35 -> Ok("ADDR_0x23")
      [] value = 36 -> Ok("ADDR_0x24")
      [] value = 37 -> Ok("ADDR_0x25")
      [] value = 38 -> Ok("ADDR_0x25")
      [] value = 39 -> Ok("ADDR_0x27")
      [] OTHER -> Err(Unit)

\* <Address as TryFrom<u8>>::try_from
try_from(value) ==
    CASE value = 32 -> Ok("ADDR_0x20")
      [] value = 33 -> Ok("ADDR_0x21")
      [] value = 34 -> Ok("ADDR_0x22")
      [] value = 35 -> Ok("ADDR_0x23")
      [] value = 36 -> Ok("ADDR_0x24")
      [] value = 37 -> Ok("ADDR_0x25")
      [] value = 38 -> Ok("ADDR_0x26")
      [] value = 39 -> Ok("ADDR_0x27")
      [] OTHER -> Err(Unit)

Register == {"INPUT_PORT", "OUTPUT_PORT", "POLARITY_INVERSION", "CONFIG_PORT",
             "OUTPUT_DRIVE_0", "OUTPUT_DRIVE_1", "INPUT_LATCH", "PULLUPDOWN_EN",
             "PULLUPDOWN_SEL", "INTERRUPT_MASK", "INTERRUPT_STATUS",
             "OUTPUT_PORT_CONFIG"}

\* `reg as u8`: the discriminant of the enum.
RegisterAsU8(reg) ==
    CASE reg = "INPUT_PORT" -> 0
      [] reg = "OUTPUT_PORT" -> 1
      [] reg = "POLARITY_INVERSION" -> 2
      [] reg = "CONFIG_PORT" -> 3
      [] reg = "OUTPUT_DRIVE_0" -> 64
      [] reg = "OUTPUT_DRIVE_1" -> 65
      [] reg = "INPUT_LATCH" -> 66
      [] reg = "PULLUPDOWN_EN" -> 67
      [] reg = "PULLUPDOWN_SEL" -> 68
      [] reg = "INTERRUPT_MASK" -> 69
      [] reg = "INTERRUPT_STATUS" -> 70
      [] reg = "OUTPUT_PORT_CONFIG" -> 79

(***************************************************************************)
(* State.                                                                  *)
(***************************************************************************)
VARIABLES
    dev,    \* dev[d]: the PCA9554 struct of instance d (its address field); <<>> before new
    bus,    \* the transactions the shared transport has been handed, in order
    ret,    \* what each call of a public operation returned, in order
    conv    \* the Address conversions made so far: <<>> or <<[value, result]>>

vars == << dev, bus, ret, conv >>

(***************************************************************************)
(* The transport (embedded_hal::blocking::i2c::{Write, WriteRead}).        *)
(* A response is Ok(b), b the byte put in the read buffer (Unit for a      *)
(* plain write), or Err(e).                                                *)
(***************************************************************************)
ReadResponses(bytes, errors) == {Ok(b) : b \in bytes} \cup {Err(e) : e \in errors}

WriteResponses(errors) == {Ok(Unit)} \cup {Err(e) : e \in errors}

\* i2c.write_read(address, bytes, buffer), as the transport sees it.
write_read(address, bytes, buflen, response) ==
    [kind |-> "write_read", address |-> address, bytes |-> bytes,
     buflen |-> buflen, response |-> response]

\* i2c.write(address, bytes), as the transport sees it.
write(address, bytes, response) ==
    [kind |-> "write", address |-> address, bytes |-> bytes,
     buflen |-> 0, response |-> response]

(***************************************************************************)
(* The driver.                                                             *)
(***************************************************************************)
\* PCA9554::new
PCA9554_new(address) == [address |-> address]

\* PCA9554::address
address(self) == self.address

\* read sending the register offset with a plain write.
read_txs_plain_write(self, reg, response) ==
    << write(AddressAsU8(self.address), << RegisterAsU8(reg) >>, response) >>

\* read addressing the first strap address instead of the instance's own.
read_txs_fixed_address(self, reg, response) ==
    << write_read(AddressAsU8("ADDR_0x20"), << RegisterAsU8(reg) >>, 1, response) >>

\* PCA9554::read: the transactions it hands to the transport.
read_txs(self, reg, response) ==
    << write_read(AddressAsU8(self.address), << RegisterAsU8(reg) >>, 1, response) >>

\* read decoding with a flag set that lacks P07 (from_bits_truncate).
read_result_truncated(self, reg, response) ==
    LET buffer == IF response.ok THEN << response.val >> ELSE << 0 >>
    IN  IF response.ok
        THEN Ok(from_bits_unchecked(BitAnd(u8_from_le_bytes(buffer), 127)))
        ELSE Err(response.err)

\* read answering from the value last written to the register at this
\* address when the transport's previous transaction was that write.
read_result_cached(self, reg, response) ==
    LET buffer == IF response.ok THEN << response.val >> ELSE << 0 >>
        cached == /\ bus # << >>
                  /\ bus[Len(bus)].kind = "write"
                  /\ bus[Len(bus)].response.ok
                  /\ bus[Len(bus)].address = AddressAsU8(self.address)
                  /\ bus[Len(bus)].bytes[1] = RegisterAsU8(reg)
    IN  IF ~ response.ok THEN Err(response.err)
        ELSE IF cached THEN Ok(from_bits_unchecked(bus[Len(bus)].bytes[2]))
        ELSE Ok(from_bits_unchecked(u8_from_le_bytes(buffer)))

\* PCA9554::read: its result.  buffer is the [0u8; 1] the transport fills.
read_result(self, reg, response) ==
    LET buffer == IF response.ok THEN << response.val >> ELSE << 0 >>
    IN  IF response.ok
        THEN Ok(from_bits_unchecked(u8_from_le_bytes(buffer)))
        ELSE Err(response.err)

\* write putting the Port byte before the register offset.
write_txs_swapped(self, reg, port, response) ==
    LET bytes  == u8_to_le_bytes(port.bits)
        buffer == << bytes[1], RegisterAsU8(reg) >>
    IN  << write(AddressAsU8(self.address), buffer, response) >>

\* write sending only the low seven bits of the Port.
write_txs_masked(self, reg, port, response) ==
    LET bytes  == u8_to_le_bytes(port.bits % 128)
        buffer == << RegisterAsU8(reg), bytes[1] >>
    IN  << write(AddressAsU8(self.address), buffer, response) >>

\* write skipping the transaction when the transport's previous transaction
\* was the same write and succeeded.
write_txs_skip_repeat(self, reg, port, response) ==
    LET bytes  == u8_to_le_bytes(port.bits)
        buffer == << RegisterAsU8(reg), bytes[1] >>
        tx     == write(AddressAsU8(self.address), buffer, response)
    IN  IF bus # << >> /\ bus[Len(bus)] = [tx EXCEPT !.response = Ok(Unit)]
        THEN << >>
        ELSE << tx >>

\* PCA9554::write: the transactions it hands to the transport.
write_txs(self, reg, port, response) ==
    LET bytes  == u8_to_le_bytes(port.bits)
        buffer == << RegisterAsU8(reg), bytes[1] >>
    IN  << write(AddressAsU8(self.address), buffer, response) >>

\* write dropping the transport's error.
write_result_swallowed(self, reg, port, response) == Ok(Unit)

\* PCA9554::write: its result.
write_result(self, reg, port, response) ==
    IF response.ok THEN Ok(Unit) ELSE Err(response.err)

\* One call of a public operation of instance d: its transactions reach the
\* bus and its result reaches the caller.  The struct is borrowed immutably.
Call(d, op, args, txs, result) ==
    /\ dev[d] # << >>
    /\ bus' = bus \o txs
    /\ ret' = Append(ret, [inst |-> d, op |-> op, args |-> args,
                           result |-> result,
                           first |-> Len(bus) + 1, ntx |-> Len(txs)])
    /\ UNCHANGED << dev, conv >>

\* The read primitive bound to instance d.
read(d, op, reg, response) ==
    Call(d, op, << >>, read_txs(dev[d][1], reg, response),
         read_result(dev[d][1], reg, response))

\* The write primitive bound to instance d.
write_reg(d, op, reg, args, port, response) ==
    Call(d, op, args, write_txs(dev[d][1], reg, port, response),
         write_result(dev[d][1], reg, port, response))

read_inputs(d, response) == read(d, "read_inputs", "INPUT_PORT", response)

read_outputs(d, response) == read(d, "read_outputs", "OUTPUT_PORT", response)

write_outputs(d, output, response) ==
    write_reg(d, "write_outputs", "OUTPUT_PORT", << output >>, output, response)

\* clear_outputs writing Port::all().
clear_outputs_all(d, response) ==
    write_reg(d, "clear_outputs", "OUTPUT_PORT", << >>, [bits |-> 255], response)

clear_outputs(d, response) ==
    write_reg(d, "clear_outputs", "OUTPUT_PORT", << >>, Port_empty, response)

write_config(d, config, response) ==
    write_reg(d, "write_config", "CONFIG_PORT", << config >>, config, response)

read_config(d, response) == read(d, "read_config", "CONFIG_PORT", response)

set_inverted(d, invert, response) ==
    write_reg(d, "set_inverted", "POLARITY_INVERSION", << invert >>, invert, response)

is_inverted(d, response) == read(d, "is_inverted", "POLARITY_INVERSION", response)

(***************************************************************************)
(* The callers.  Every operation is called for any instance, with the Port *)
(* bytes and the transport answers of the given sets.                      *)
(***************************************************************************)
ReadInputsWith(bytes, errors) ==
    \E d \in Instances, r \in ReadResponses(bytes, errors) : read_inputs(d, r)

ReadOutputsWith(bytes, errors) ==
    \E d \in Instances, r \in ReadResponses(bytes, errors) : read_outputs(d, r)

WriteOutputsWith(bytes, errors) ==
    \E d \in Instances, b \in bytes, r \in WriteResponses(errors) :
        write_outputs(d, from_bits_unchecked(b), r)

ClearOutputsWith(errors) ==
    \E d \in Instances, r \in WriteResponses(errors) : clear_outputs(d, r)

WriteConfigWith(bytes, errors) ==
    \E d \in Instances, b \in bytes, r \in WriteResponses(errors) :
        write_config(d, from_bits_unchecked(b), r)

ReadConfigWith(bytes, errors) ==
    \E d \in Instances, r \in ReadResponses(bytes, errors) : read_config(d, r)

SetInvertedWith(bytes, errors) ==
    \E d \in Instances, b \in bytes, r \in WriteResponses(errors) :
        set_inverted(d, from_bits_unchecked(b), r)

IsInvertedWith(bytes, errors) ==
    \E d \in Instances, r \in ReadResponses(bytes, errors) : is_inverted(d, r)

(***************************************************************************)
(* Spec: two constructed instances share the transport; up to MaxCalls     *)
(* calls in any interleaving, bytes drawn from the sample sets.  The first *)
(* instance has any address, the second one of SampleStraps.               *)
(***************************************************************************)
InitAll ==
    /\ dev \in [Instances -> {<< PCA9554_new(a) >> : a \in Address}]
    /\ bus = << >>
    /\ ret = << >>
    /\ conv = << >>

Init ==
    /\ InitAll
    /\ address(dev[2][1]) \in SampleStraps

ReadInputs == Len(ret) < MaxCalls /\ ReadInputsWith(SampleBytes, SampleErrors)

ReadOutputs == Len(ret) < MaxCalls /\ ReadOutputsWith(SampleBytes, SampleErrors)

WriteOutputs == Len(ret) < MaxCalls /\ WriteOutputsWith(SampleArgs, SampleErrors)

ClearOutputs == Len(ret) < MaxCalls /\ ClearOutputsWith(SampleErrors)

WriteConfig == Len(ret) < MaxCalls /\ WriteConfigWith(SampleArgs, SampleErrors)

ReadConfig == Len(ret) < MaxCalls /\ ReadConfigWith(SampleBytes, SampleErrors)

SetInverted == Len(ret) < MaxCalls /\ SetInvertedWith(SampleArgs, SampleErrors)

IsInverted == Len(ret) < MaxCalls /\ IsInvertedWith(SampleBytes, SampleErrors)

Next ==
    \/ ReadInputs
    \/ ReadOutputs
    \/ WriteOutputs
    \/ ClearOutputs
    \/ WriteConfig
    \/ ReadConfig
    \/ SetInverted
    \/ IsInverted

Spec == Init /\ [][Next]_vars

(***************************************************************************)
(* SpecShared: two instances at every pair of addresses share a transport  *)
(* that answers every transaction; up to MaxCalls calls in any             *)
(* interleaving.                                                           *)
(***************************************************************************)
SharedReadInputs == Len(ret) < MaxCalls /\ ReadInputsWith(SampleArgs, {})

SharedReadOutputs == Len(ret) < MaxCalls /\ ReadOutputsWith(SampleArgs, {})

SharedWriteOutputs == Len(ret) < MaxCalls /\ WriteOutputsWith(SampleArgs, {})

SharedClearOutputs == Len(ret) < MaxCalls /\ ClearOutputsWith({})

SharedWriteConfig == Len(ret) < MaxCalls /\ WriteConfigWith(SampleArgs, {})

SharedReadConfig == Len(ret) < MaxCalls /\ ReadConfigWith(SampleArgs, {})

SharedSetInverted == Len(ret) < MaxCalls /\ SetInvertedWith(SampleArgs, {})

SharedIsInverted == Len(ret) < MaxCalls /\ IsInvertedWith(SampleArgs, {})

NextShared ==
    \/ SharedReadInputs
    \/ SharedReadOutputs
    \/ SharedWriteOutputs
    \/ SharedClearOutputs
    \/ SharedWriteConfig
    \/ SharedReadConfig
    \/ SharedSetInverted
    \/ SharedIsInverted

SpecShared == InitAll /\ [][NextShared]_vars

(***************************************************************************)
(* SpecCall: one call of any operation with any of the 256 bytes as Port   *)
(* argument or as the transport's answer.                                  *)
(***************************************************************************)
AnyReadInputs == ret = << >> /\ ReadInputsWith(Byte, Errors)

AnyReadOutputs == ret = << >> /\ ReadOutputsWith(Byte, Errors)

AnyWriteOutputs == ret = << >> /\ WriteOutputsWith(Byte, Errors)

AnyClearOutputs == ret = << >> /\ ClearOutputsWith(Errors)

AnyWriteConfig == ret = << >> /\ WriteConfigWith(Byte, Errors)

AnyReadConfig == ret = << >> /\ ReadConfigWith(Byte, Errors)

AnySetInverted == ret = << >> /\ SetInvertedWith(Byte, Errors)

AnyIsInverted == ret = << >> /\ IsInvertedWith(Byte, Errors)

NextCall ==
    \/ AnyReadInputs
    \/ AnyReadOutputs
    \/ AnyWriteOutputs
    \/ AnyClearOutputs
    \/ AnyWriteConfig
    \/ AnyReadConfig
    \/ AnySetInverted
    \/ AnyIsInverted

SpecCall == InitAll /\ [][NextCall]_vars

(***************************************************************************)
(* SpecRoundTrip: a read answered with any of the 256 bytes, after which   *)
(* the caller writes the Port it was given back to a register.             *)
(***************************************************************************)
\* The Ports the reads so far returned to the caller.
PortsRead ==
    {ret[k].result.val : k \in {j \in DOMAIN ret : /\ ret[j].args = << >>
                                                   /\ ret[j].ntx > 0
                                                   /\ bus[ret[j].first].kind = "write_read"
                                                   /\ ret[j].result.ok}}

WriteBackOutputs ==
    /\ Len(ret) = 1
    /\ \E d \in Instances, p \in PortsRead, r \in WriteResponses(SampleErrors) :
          write_outputs(d, p, r)

WriteBackConfig ==
    /\ Len(ret) = 1
    /\ \E d \in Instances, p \in PortsRead, r \in WriteResponses(SampleErrors) :
          write_config(d, p, r)

WriteBackInverted ==
    /\ Len(ret) = 1
    /\ \E d \in Instances, p \in PortsRead, r \in WriteResponses(SampleErrors) :
          set_inverted(d, p, r)

NextRoundTrip ==
    \/ AnyReadInputs
    \/ AnyReadOutputs
    \/ AnyReadConfig
    \/ AnyIsInverted
    \/ WriteBackOutputs
    \/ WriteBackConfig
    \/ WriteBackInverted

SpecRoundTrip == InitAll /\ [][NextRoundTrip]_vars

(***************************************************************************)
(* SpecOutputs: up to MaxCalls writes of the output register, by           *)
(* write_outputs or by clear_outputs, in any interleaving.                 *)
(***************************************************************************)
OutWrite == Len(ret) < MaxCalls /\ WriteOutputsWith(SampleBytes, SampleErrors)

OutClear == Len(ret) < MaxCalls /\ ClearOutputsWith(SampleErrors)

NextOutputs ==
    \/ OutWrite
    \/ OutClear

SpecOutputs == InitAll /\ [][NextOutputs]_vars

(***************************************************************************)
(* SpecDecode: addresses are decoded from raw bytes and the instances are  *)
(* constructed from the addresses the decoding yields.                     *)
(***************************************************************************)
InitDecode ==
    /\ dev = [d \in Instances |-> << >>]
    /\ bus = << >>
    /\ ret = << >>
    /\ conv = << >>

\* Address::try_from(value) for any u8.
TryFrom ==
    /\ \E value \in Byte : conv' = << [value |-> value, result |-> try_from(value)] >>
    /\ UNCHANGED << dev, bus, ret >>

\* PCA9554::new(&i2c, address) with the address the last conversion yielded.
New ==
    /\ conv # << >>
    /\ conv[1].result.ok
    /\ \E d \in Instances :
          /\ dev[d] = << >>
          /\ dev' = [dev EXCEPT ![d] = << PCA9554_new(conv[1].result.val) >>]
    /\ UNCHANGED << bus, ret, conv >>

NextDecode == TryFrom \/ New

SpecDecode == InitDecode /\ [][NextDecode]_vars

(***************************************************************************)
(* Vocabulary of the properties.                                           *)
(***************************************************************************)
ReadOps == {"read_inputs", "read_outputs", "is_inverted", "read_config"}

WriteOps == {"write_outputs", "set_inverted", "write_config"}

\* The register offset the wire format fixes for each operation.
WireOffset(op) ==
    CASE op = "read_inputs" -> 0
      [] op \in {"read_outputs", "write_outputs", "clear_outputs"} -> 1
      [] op \in {"is_inverted", "set_inverted"} -> 2
      [] op \in {"read_config", "write_config"} -> 3

\* The 7-bit bus address of each strap setting.
StrapByte(a) ==
    CASE a = "ADDR_0x20" -> 32 [] a = "ADDR_0x21" -> 33
      [] a = "ADDR_0x22" -> 34 [] a = "ADDR_0x23" -> 35
      [] a = "ADDR_0x24" -> 36 [] a = "ADDR_0x25" -> 37
      [] a = "ADDR_0x26" -> 38 [] a = "ADDR_0x27" -> 39

\* The bus address instance d was constructed with.
OwnByte(d) == StrapByte(dev[d][1].address)

\* Bit i of byte b.
Bit(b, i) == (b \div (2 ^ i)) % 2

\* The transactions call k handed to the transport.
TxsOf(k) == SubSeq(bus, ret[k].first, ret[k].first + ret[k].ntx - 1)

\* A transaction without the transport's answer.
Shape(tx) == [kind |-> tx.kind, address |-> tx.address, bytes |-> tx.bytes,
              buflen |-> tx.buflen]

ShapesOf(k) == [n \in 1..ret[k].ntx |-> Shape(TxsOf(k)[n])]

\* Call k handed the transport at least one transaction and the first failed.
Failed(k) == ret[k].ntx >= 1 /\ ~ bus[ret[k].first].response.ok

\* Call k handed the transport at least one transaction and the first succeeded.
Succeeded(k) == ret[k].ntx >= 1 /\ bus[ret[k].first].response.ok

C2_WriteIssuesOnePlainWrite ==
    \A k \in DOMAIN ret :
        ret[k].op \in WriteOps =>
            /\ ret[k].ntx = 1
            /\ Shape(bus[ret[k].first]) =
                 [kind |-> "write", address |-> OwnByte(ret[k].inst),
                  bytes |-> << WireOffset(ret[k].op), ret[k].args[1].bits >>,
                  buflen |-> 0]

C2_Witness ==
    \E k \in DOMAIN ret :
        /\ ret[k].op = "set_inverted"
        /\ ret[k].args = << [bits |-> 254] >>
        /\ dev[ret[k].inst][1].address = "ADDR_0x21"
        /\ bus[ret[k].first].kind = "write"
        /\ bus[ret[k].first].address = 33
        /\ bus[ret[k].first].bytes = << 2, 254 >>

(***************************************************************************)
(* C3.  For every byte b the transport answers a read with, the read       *)
(* operation succeeds and returns the Port whose bits equal b bit for bit  *)
(* (pin i's flag is contained exactly when bit i of b is set); nothing is  *)
(* rejected or masked.  0x00 gives Port::empty(), 0x01 gives {P00}, 0xAA   *)
(* gives {P01, P03, P05, P07}.                                             *)
(***************************************************************************)
C3_ReadReturnsByteAsFlags ==
    \A k \in DOMAIN ret :
        (ret[k].op \in ReadOps /\ Succeeded(k)) =>
            LET b == bus[ret[k].first].response.val
                r == ret[k].result
            IN  /\ r.ok
                /\ r.val \in Port
                /\ \A i \in 0..7 : contains(r.val, PinFlag[i]) <=> (Bit(b, i) = 1)
                /\ (b = 0) => (r.val = Port_empty)
                /\ (b = 1) => (r.val = P00)
                /\ (b = 170) => (r.val = union(union(P01, P03), union(P05, P07)))

C3_Witness ==
    \E k \in DOMAIN ret :
        /\ ret[k].op = "read_outputs"
        /\ Succeeded(k)
        /\ bus[ret[k].first].response.val = 170
        /\ ret[k].result = Ok(union(union(P01, P03), union(P05, P07)))
        /\ contains(ret[k].result.val, P07)
        /\ ~ contains(ret[k].result.val, P00)

(***************************************************************************)
(* C4.  When the transport fails a call with error e, the operation        *)
(* returns the error result carrying exactly e, and the call handed the    *)
(* transport exactly one transaction: no retry, no follow-up.              *)
(***************************************************************************)
C4_ErrorPropagatesOnce ==
    \A k \in DOMAIN ret :
        Failed(k) =>
            /\ ret[k].result = Err(bus[ret[k].first].response.err)
            /\ ret[k].ntx = 1
            /\ Len(bus) = ret[k].first

C4_Witness ==
    \E k \in DOMAIN ret :
        /\ ret[k].op = "write_config"
        /\ Failed(k)
        /\ bus[ret[k].first].response = Err("ARBITRATION_LOSS")
        /\ ret[k].result = Err("ARBITRATION_LOSS")
        /\ Len(bus) = 1

(***************************************************************************)
(* C5.  clear_outputs() and write_outputs(Port::empty()) of one instance   *)
(* produce an identical transaction, a single plain write to the           *)
(* instance's address with payload [0x01, 0x00], and return the same       *)
(* result for the same transport outcome, success or error.                *)
(***************************************************************************)
C5_ClearIsWriteEmpty ==
    \A i \in DOMAIN ret :
        ret[i].op = "clear_outputs" =>
            /\ ShapesOf(i) = << [kind |-> "write", address |-> OwnByte(ret[i].inst),
                                 bytes |-> << 1, 0 >>, buflen |-> 0] >>
            /\ \A j \in DOMAIN ret :
                 ( /\ ret[j].op = "write_outputs"
                   /\ ret[j].args = << Port_empty >>
                   /\ ret[j].inst = ret[i].inst ) =>
                     /\ ShapesOf(j) = ShapesOf(i)
                     /\ (bus[ret[j].first].response = bus[ret[i].first].response)
                          => (ret[j].result = ret[i].result)

C5_Witness ==
    \E i, j \in DOMAIN ret :
        /\ ret[i].op = "clear_outputs"
        /\ ret[j].op = "write_outputs"
        /\ ret[j].args = << Port_empty >>
        /\ ret[j].inst = ret[i].inst
        /\ bus[ret[i].first].bytes = << 1, 0 >>
        /\ bus[ret[j].first].bytes = << 1, 0 >>
        /\ ret[i].result = Err("NACK")
        /\ ret[j].result = Err("NACK")

(***************************************************************************)
(* C6.  Address decoding is total over the 256 byte values: each byte in   *)
(* 0x20..0x27 decodes to the Address variant whose numeric value is that   *)
(* byte, each of the other 248 bytes fails with the decode error, and no   *)
(* instance is ever constructed with an address outside 0x20..0x27.        *)
(***************************************************************************)
C6_AddressDecodeTotal ==
    /\ \A n \in DOMAIN conv :
         LET c == conv[n]
         IN  IF c.value \in 32..39
             THEN /\ c.result.ok
                  /\ c.result.val \in Address
                  /\ AddressAsU8(c.result.val) = c.value
             ELSE c.result = Err(Unit)
    /\ \A d \in Instances :
         dev[d] # << >> =>
             /\ address(dev[d][1]) \in Address
             /\ AddressAsU8(address(dev[d][1])) \in 32..39

C6_Witness ==
    /\ dev[1] = << [address |-> "ADDR_0x27"] >>
    /\ dev[2] = << [address |-> "ADDR_0x20"] >>
    /\ conv = << [value |-> 40, result |-> Err(Unit)] >>

(***************************************************************************)
(* C7.  When two instances share one transport, in every interleaving of   *)
(* their operations each transaction carries the address of the instance   *)
(* that issued it, never the different address of the other instance, and  *)
(* every address seen on the bus lies in 0x20..0x27.                       *)
(***************************************************************************)
C7_NoCrossTargeting ==
    /\ \A k \in DOMAIN ret :
         \A n \in ret[k].first .. (ret[k].first + ret[k].ntx - 1) :
            /\ bus[n].address = OwnByte(ret[k].inst)
            /\ \A e \in Instances :
                 (dev[e][1].address # dev[ret[k].inst][1].address)
                     => (bus[n].address # OwnByte(e))
    /\ \A n \in DOMAIN bus : bus[n].address \in 32..39

C7_Witness ==
    /\ Len(ret) = 2
    /\ ret[1].inst = 2
    /\ ret[2].inst = 1
    /\ dev[1][1].address = "ADDR_0x20"
    /\ dev[2][1].address = "ADDR_0x27"
    /\ ret[1].op = "write_config"
    /\ ret[2].op = "read_inputs"
    /\ bus[1].address = 39
    /\ bus[2].address = 32

(***************************************************************************)
(* C8.  For every byte b, decoding b into a Port and encoding that Port    *)
(* again yields b: the byte a read decoded and the byte a later write of   *)
(* the Port the read returned puts on the wire are equal.                  *)
(***************************************************************************)
C8_PortRoundTrip ==
    \A i, j \in DOMAIN ret :
        ( /\ i < j
          /\ ret[i].op \in ReadOps
          /\ Succeeded(i)
          /\ ret[i].result.ok
          /\ ret[j].op \in WriteOps
          /\ ret[j].args = << ret[i].result.val >> ) =>
              /\ ret[j].ntx = 1
              /\ Len(bus[ret[j].first].bytes) = 2
              /\ bus[ret[j].first].bytes[2] = bus[ret[i].first].response.val

C8_Witness ==
    /\ Len(ret) = 2
    /\ ret[1].op = "read_inputs"
    /\ bus[1].response = Ok(255)
    /\ ret[2].op = "write_outputs"
    /\ ret[2].args = << ret[1].result.val >>
    /\ bus[2].bytes = << 1, 255 >>

(***************************************************************************)
(* C9.  The driver caches no register state: every read call issues its    *)
(* own bus transaction, also right after a write to the same register or   *)
(* an earlier read of it, and returns the byte the transport answers that  *)
(* transaction with, never a value written or read before.                 *)
(***************************************************************************)
C9_NoCaching ==
    \A k \in DOMAIN ret :
        ret[k].op \in ReadOps =>
            /\ ret[k].ntx = 1
            /\ \A j \in 1..(k - 1) : ret[j].first + ret[j].ntx <= ret[k].first
            /\ bus[ret[k].first].kind = "write_read"
            /\ bus[ret[k].first].bytes = << WireOffset(ret[k].op) >>
            /\ bus[ret[k].first].response.ok =>
                 /\ ret[k].result.ok
                 /\ ret[k].result.val.bits = bus[ret[k].first].response.val

C9_Witness ==
    /\ Len(ret) = 2
    /\ ret[1].inst = ret[2].inst
    /\ ret[1].op = "write_config"
    /\ ret[1].args = << [bits |-> 170] >>
    /\ ret[1].result = Ok(Unit)
    /\ ret[2].op = "read_config"
    /\ Len(bus) = 2
    /\ bus[2].response = Ok(0)
    /\ ret[2].result = Ok([bits |-> 0])

(***************************************************************************)
(* C10.  No operation changes the instance: address() keeps returning the  *)
(* Address given at construction whatever was called and however it ended, *)
(* and the transaction a call emits is determined by that address, the     *)
(* operation and its Port argument alone, so calls made after different    *)
(* histories emit the same transaction.                                    *)
(***************************************************************************)
SameTransaction ==
    \A i, j \in DOMAIN ret :
        ( /\ address(dev[ret[i].inst][1]) = address(dev[ret[j].inst][1])
          /\ ret[i].op = ret[j].op
          /\ ret[i].args = ret[j].args ) => (ShapesOf(i) = ShapesOf(j))

====
